---------------------------- MODULE Spec2Model ----------------------------
(***************************************************************************)
(* Model of the Better Footnotes renumbering engine                        *)
(* (src/src/footnote-utils.ts, renumberFootnotes, lines 18-202) and of the *)
(* editor command that applies it (src/unnamed/part_000, lines 124-138).   *)
(*                                                                         *)
(* A document is a sequence of characters.  Every character is a string of *)
(* length one, except for a few runs of ordinary characters written as one *)
(* symbol: the labels "constructor" and "__proto__", the placeholder       *)
(* tokens "__TEMP_FOOTNOTE_p__", and the runs between the brackets of the  *)
(* texts "[object Object]" and "function Object() { [native code] }".      *)
(* No run contains '[', '^', ']', ':' or '\', and none stands where the    *)
(* code looks for white space, so every pattern of the code treats a run   *)
(* like one ordinary character.                                            *)
(***************************************************************************)
EXTENDS Integers, Sequences, FiniteSets, TLC

(***************************************************************************)
(* Bounds of the model.                                                    *)
(***************************************************************************)
MaxPieces == 4
MaxSpacingPieces == 6
MaxEndingPieces == 5
MaxArgumentPieces == 3
MaxFootnotes == 1
MaxNumberingPieces == 2
MaxFiles == 2
MaxOrphanLines == 4
MaxNestedLines == 3
MaxSectionLines == 3
MaxTicks == 2
MaxModals == 2
MaxRuns == 2

(***************************************************************************)
(* Characters and character classes of the regular expressions.           *)
(***************************************************************************)
LF == "\n"
CR == "\r"
BS == "\\"

\* JavaScript '.' matches every character except the line terminators.
IsLineTerminator(c) == c \in {LF, CR}

\* JavaScript '\s' (also what String.prototype.trim strips).
IsWhiteSpace(c) == c \in {" ", "\t", LF, CR}

At(s, i) == IF i >= 1 /\ i <= Len(s) THEN s[i] ELSE "<eof>"

\* (?:[^\]\\]|\\.)+ from position i: the position after the greedy run.
\* The run is unique: a unit is either one character other than ']' and
\* '\', or '\' followed by one character other than a line terminator, so
\* giving back units never exposes a ']'.
RECURSIVE labelRunEnd(_, _)
labelRunEnd(s, i) ==
    IF i > Len(s) THEN i
    ELSE IF s[i] = "]" THEN i
    ELSE IF s[i] = BS
         THEN IF i + 1 <= Len(s) /\ ~IsLineTerminator(s[i + 1])
              THEN labelRunEnd(s, i + 2)
              ELSE i
    ELSE labelRunEnd(s, i + 1)

\* The same pattern without its lookahead (?!:), which counts the opener of
\* a definition line as a reference.
footnoteRefRegexAt_NoLookahead(s, i) ==
    IF At(s, i) = "[" /\ At(s, i + 1) = "^"
    THEN LET j == labelRunEnd(s, i + 2)
         IN  IF j > i + 2 /\ At(s, j) = "]" THEN j ELSE 0
    ELSE 0

\* /\[\^((?:[^\]\\]|\\.)+)\](?!:)/ anchored at position i: 0 when there is
\* no match, else the position of the closing ']'.
footnoteRefRegexAt(s, i) ==
    IF At(s, i) = "[" /\ At(s, i + 1) = "^"
    THEN LET j == labelRunEnd(s, i + 2)
         IN  IF j > i + 2 /\ At(s, j) = "]" /\ At(s, j + 1) # ":" THEN j ELSE 0
    ELSE 0

\* The successive matches of the global regex: exec() resumes after the
\* previous match, or one character further when there is none at i.
RECURSIVE footnoteRefRegex(_, _)
footnoteRefRegex(s, i) ==
    IF i > Len(s) THEN << >>
    ELSE LET j == footnoteRefRegexAt(s, i)
         IN  IF j = 0 THEN footnoteRefRegex(s, i + 1)
             ELSE << [index |-> i, last |-> j, label |-> SubSeq(s, i + 2, j - 1)] >>
                  \o footnoteRefRegex(s, j + 1)

\* The while loop over exec(): labels in order of first appearance.
RECURSIVE collectLabels(_, _, _)
collectLabels(matches, k, acc) ==
    IF k > Len(matches) THEN acc
    ELSE LET originalLabel == matches[k].label
         IN  IF \E n \in 1..Len(acc) : acc[n] = originalLabel
             THEN collectLabels(matches, k + 1, acc)
             ELSE collectLabels(matches, k + 1, Append(acc, originalLabel))

\* The labels of all matches, without the seenLabels test: a repeated
\* reference takes a further entry.
orderedLabels_EveryMatch(content) ==
    LET matches == footnoteRefRegex(content, 1)
    IN  [k \in 1..Len(matches) |-> matches[k].label]

orderedLabels(content) == collectLabels(footnoteRefRegex(content, 1), 1, << >>)


(***************************************************************************)
(* Numbers and their decimal text.                                         *)
(***************************************************************************)
Digits == << "0", "1", "2", "3", "4", "5", "6", "7", "8", "9" >>

IsDigit(c) == \E d \in 1..10 : Digits[d] = c

DigitValue(c) == (CHOOSE d \in 1..10 : Digits[d] = c) - 1

\* Number.prototype.toString(): the decimal digits of a positive integer.
RECURSIVE toString(_)
toString(n) ==
    IF n < 10 THEN << Digits[n + 1] >>
    ELSE Append(toString(n \div 10), Digits[(n % 10) + 1])

\* parseInt(text): the value of the leading decimal digits, NaN when the
\* text does not start with a digit (no sign or white space occurs in the
\* texts it is applied to, so no result is negative and -1 can stand for NaN).
NaN == -1

RECURSIVE parseDigits(_, _, _)
parseDigits(text, k, acc) ==
    IF k > Len(text) \/ ~IsDigit(text[k]) THEN acc
    ELSE parseDigits(text, k + 1, acc * 10 + DigitValue(text[k]))

parseInt(text) ==
    IF Len(text) = 0 \/ ~IsDigit(text[1]) THEN NaN ELSE parseDigits(text, 1, 0)

(***************************************************************************)
(* The plain object { [originalLabel]: string } of JavaScript.             *)
(***************************************************************************)
\* A key that is a canonical array index: Object.entries lists these keys
\* first, in ascending numeric order, then the other keys in insertion order.
IsArrayIndex(key) ==
    /\ Len(key) >= 1
    /\ \A k \in 1..Len(key) : IsDigit(key[k])
    /\ (key[1] = "0" => Len(key) = 1)
    /\ Len(key) <= 9

\* Keys every plain object inherits from Object.prototype; "__proto__" is an
\* accessor: assigning a string to it stores nothing.
ProtoAccessor == << "__proto__" >>
InheritedKeys == { << "constructor" >>, ProtoAccessor }

\* What a template literal prints for the inherited value of a key.
InheritedText(key) ==
    IF key = ProtoAccessor THEN << "[", "object Object", "]" >>
    ELSE << "function Object() { ", "[", "native code", "]", " }" >>

\* Step 2: the own keys of labelToSequentialNumber in insertion order, each
\* with the decimal text of its 1-based index in orderedLabels.
RECURSIVE ownEntries(_, _)
ownEntries(ordered, k) ==
    IF k > Len(ordered) THEN << >>
    ELSE IF ordered[k] = ProtoAccessor THEN ownEntries(ordered, k + 1)
    ELSE << [key |-> ordered[k], value |-> toString(k)] >>
         \o ownEntries(ordered, k + 1)

labelToSequentialNumber(ordered) == ownEntries(ordered, 1)

HasOwn(obj, key) == \E k \in 1..Len(obj) : obj[k].key = key

\* obj[key]: the own value, else the inherited one, else undefined.
Undefined == << >>
Lookup(obj, key) ==
    IF HasOwn(obj, key)
    THEN obj[CHOOSE k \in 1..Len(obj) : obj[k].key = key].value
    ELSE IF key \in InheritedKeys THEN InheritedText(key)
    ELSE Undefined

\* Insert an entry among array-index keys kept in ascending order.
RECURSIVE insertIndexKey(_, _)
insertIndexKey(sorted, e) ==
    IF sorted = << >> THEN << e >>
    ELSE IF parseInt(e.key) < parseInt(sorted[1].key) THEN << e >> \o sorted
    ELSE << sorted[1] >> \o insertIndexKey(Tail(sorted), e)

RECURSIVE indexKeys(_, _, _)
indexKeys(obj, k, acc) ==
    IF k > Len(obj) THEN acc
    ELSE indexKeys(obj, k + 1,
                   IF IsArrayIndex(obj[k].key) THEN insertIndexKey(acc, obj[k])
                   ELSE acc)

\* Object.entries(obj).
ObjectEntries(obj) ==
    indexKeys(obj, 1, << >>)
    \o SelectSeq(obj, LAMBDA e : ~IsArrayIndex(e.key))

(***************************************************************************)
(* Strings: split, join, trim, literal replacement.                        *)
(***************************************************************************)
\* text.split(/\r?\n/): a line ends at "\n" or at "\r\n"; a "\r" that no "\n"
\* follows stays in its line.
RECURSIVE splitLines(_, _, _)
splitLines(text, i, start) ==
    IF i > Len(text) THEN << SubSeq(text, start, Len(text)) >>
    ELSE IF text[i] = LF
         THEN << SubSeq(text, start, i - 1) >> \o splitLines(text, i + 1, i + 1)
    ELSE IF text[i] = CR /\ At(text, i + 1) = LF
         THEN << SubSeq(text, start, i - 1) >> \o splitLines(text, i + 2, i + 2)
    ELSE splitLines(text, i + 1, start)

split(text) == splitLines(text, 1, 1)

\* parts.join(separator).
RECURSIVE join(_, _)
join(parts, separator) ==
    IF parts = << >> THEN << >>
    ELSE IF Len(parts) = 1 THEN parts[1]
    ELSE parts[1] \o separator \o join(Tail(parts), separator)

\* line.trim() === "".
IsBlank(line) == \A k \in 1..Len(line) : IsWhiteSpace(line[k])

\* content.includes("\r\n").
includesCRLF(content) ==
    \E k \in 1..(Len(content) - 1) : content[k] = CR /\ content[k + 1] = LF

\* The label with every character of [.*+?^${}()|[\]\\] escaped, compiled
\* into `\[\^<label>\](?!:)`: the pattern matches "[^", the characters of the
\* label literally, "]", and then anything but ':'.
refRegexAt(text, i, label) ==
    /\ At(text, i) = "[" /\ At(text, i + 1) = "^"
    /\ \A k \in 1..Len(label) : At(text, i + 1 + k) = label[k]
    /\ At(text, i + Len(label) + 2) = "]"
    /\ At(text, i + Len(label) + 3) # ":"

\* text.replace(refRegex, `[^${replacement}]`) with the g flag: matches are
\* taken left to right, each search resuming after the previous match; the
\* text from `start` up to a match is copied.
RECURSIVE replaceFrom(_, _, _, _, _)
replaceFrom(text, i, start, label, replacement) ==
    IF i > Len(text) THEN SubSeq(text, start, Len(text))
    ELSE IF refRegexAt(text, i, label)
         THEN SubSeq(text, start, i - 1) \o << "[", "^" >> \o replacement \o << "]" >>
              \o replaceFrom(text, i + Len(label) + 3, i + Len(label) + 3,
                             label, replacement)
    ELSE replaceFrom(text, i + 1, start, label, replacement)

replaceRefs(text, label, replacement) == replaceFrom(text, 1, 1, label, replacement)

(***************************************************************************)
(* Step 3: the definition pattern and the partition of the lines.          *)
(***************************************************************************)
RECURSIVE skipWhiteSpace(_, _)
skipWhiteSpace(line, i) ==
    IF i <= Len(line) /\ IsWhiteSpace(line[i]) THEN skipWhiteSpace(line, i + 1)
    ELSE i

RECURSIVE skipToBracket(_, _)
skipToBracket(line, i) ==
    IF i <= Len(line) /\ line[i] # "]" THEN skipToBracket(line, i + 1) ELSE i

\* line.match(/^(\s*)\[\^([^\]]+)\]:\s*(.*)$/): the captured groups, or
\* matched = FALSE.  [^\]]+ runs to the first ']', which ':' must follow; the
\* tail (.*) must reach the end of the line without a line terminator.
defMatch(line) ==
    LET a == skipWhiteSpace(line, 1)
        b == skipToBracket(line, a + 2)
        c == skipWhiteSpace(line, b + 2)
    IN  IF /\ At(line, a) = "[" /\ At(line, a + 1) = "^"
           /\ b > a + 2 /\ At(line, b) = "]" /\ At(line, b + 1) = ":"
           /\ \A k \in c..Len(line) : ~IsLineTerminator(line[k])
        THEN [matched |-> TRUE,
              indentation |-> SubSeq(line, 1, a - 1),
              originalLabel |-> SubSeq(line, a + 2, b - 1),
              defContent |-> SubSeq(line, c, Len(line))]
        ELSE [matched |-> FALSE]

\* The footnoteDefinitions collected by the loop over the lines.
RECURSIVE collectDefinitions(_, _, _)
collectDefinitions(lines, i, mapping) ==
    IF i > Len(lines) THEN << >>
    ELSE LET m == defMatch(lines[i])
             newNumber == IF m.matched THEN Lookup(mapping, m.originalLabel)
                          ELSE Undefined
         IN  (IF newNumber # Undefined
              THEN << [originalLabel |-> m.originalLabel,
                       newNumber |-> newNumber,
                       content |-> m.defContent,
                       indentation |-> m.indentation] >>
              ELSE << >>)
             \o collectDefinitions(lines, i + 1, mapping)

\* The nonFootnoteLines as they would be if the definitions without a
\* reference were put behind the other lines.
RECURSIVE collectNonFootnoteLines_OrphansLast(_, _, _)
collectNonFootnoteLines_OrphansLast(lines, i, mapping) ==
    IF i > Len(lines) THEN << >>
    ELSE LET m == defMatch(lines[i])
             newNumber == IF m.matched THEN Lookup(mapping, m.originalLabel)
                          ELSE Undefined
             rest == collectNonFootnoteLines_OrphansLast(lines, i + 1, mapping)
         IN  IF newNumber # Undefined THEN rest
             ELSE IF m.matched THEN rest \o << lines[i] >>
             ELSE << lines[i] >> \o rest

\* The nonFootnoteLines collected by the same loop.
RECURSIVE collectNonFootnoteLines(_, _, _)
collectNonFootnoteLines(lines, i, mapping) ==
    IF i > Len(lines) THEN << >>
    ELSE LET m == defMatch(lines[i])
             newNumber == IF m.matched THEN Lookup(mapping, m.originalLabel)
                          ELSE Undefined
         IN  (IF newNumber # Undefined THEN << >> ELSE << lines[i] >>)
             \o collectNonFootnoteLines(lines, i + 1, mapping)

(***************************************************************************)
(* Step 4: Array.prototype.sort with (a, b) => parseInt(a.newNumber) -     *)
(* parseInt(b.newNumber).                                                  *)
(***************************************************************************)
\* The comparator; sort reads a NaN result as +0.
compareDefinitions(a, b) ==
    LET x == parseInt(a.newNumber)
        y == parseInt(b.newNumber)
    IN  IF x = NaN \/ y = NaN THEN 0 ELSE x - y

\* Insertion behind every element that does not compare greater: the sort
\* is stable.
RECURSIVE insertDefinition(_, _)
insertDefinition(sorted, d) ==
    IF sorted = << >> THEN << d >>
    ELSE IF compareDefinitions(sorted[1], d) > 0 THEN << d >> \o sorted
    ELSE << sorted[1] >> \o insertDefinition(Tail(sorted), d)

RECURSIVE stableSort(_, _, _)
stableSort(defs, k, acc) ==
    IF k > Len(defs) THEN acc
    ELSE stableSort(defs, k + 1, insertDefinition(acc, defs[k]))

\* The comparator is a consistent ordering unless some element compares
\* equal to two elements that differ from each other.
ConsistentComparator(defs) ==
    \A i, j, k \in 1..Len(defs) :
        (compareDefinitions(defs[i], defs[j]) = 0
         /\ compareDefinitions(defs[j], defs[k]) = 0)
        => compareDefinitions(defs[i], defs[k]) = 0

\* The orders sort may leave: the stable order, or, for a comparator that is
\* not consistent, any order (the order is then implementation-defined).
sortOutcomes(defs) ==
    IF ConsistentComparator(defs) THEN { stableSort(defs, 1, << >>) }
    ELSE { [k \in 1..Len(defs) |-> defs[p[k]]] :
             p \in { q \in [1..Len(defs) -> 1..Len(defs)] :
                       \A i, j \in 1..Len(defs) : q[i] = q[j] => i = j } }

(***************************************************************************)
(* Step 5: the two passes over the references of the remaining lines.      *)
(***************************************************************************)
\* `__TEMP_FOOTNOTE_${Math.random().toString(36).substr(2, 9)}__`: the
\* tokens a call may draw, one per entry; two draws may be equal.
TempTokens ==
    << "__TEMP_FOOTNOTE_p__", "__TEMP_FOOTNOTE_q__", "__TEMP_FOOTNOTE_r__",
       "__TEMP_FOOTNOTE_s__", "__TEMP_FOOTNOTE_t__", "__TEMP_FOOTNOTE_u__" >>

tempPlaceholder(r) == << TempTokens[r] >>

\* The draws of one call over n entries: every pattern of equal and
\* different tokens occurs among them.
Draws == [n \in 0..Len(TempTokens) |-> [1..n -> 1..n]]

\* The draws in which no token comes twice.
FreshDraws ==
    [n \in 0..Len(TempTokens) |->
        { draw \in Draws[n] : \A i, j \in 1..n : draw[i] = draw[j] => i = j }]

\* tempPlaceholders[tempPlaceholder] = newNumber: a new key is appended, an
\* existing key keeps its place and takes the new value.
setProperty(obj, key, value) ==
    IF HasOwn(obj, key)
    THEN [k \in 1..Len(obj) |->
             IF obj[k].key = key THEN [key |-> key, value |-> value] ELSE obj[k]]
    ELSE Append(obj, [key |-> key, value |-> value])

\* First pass: [^originalLabel] -> [^tempPlaceholder], entry by entry.
RECURSIVE firstPass(_, _, _, _, _)
firstPass(entries, k, draw, text, temps) ==
    IF k > Len(entries) THEN [updatedContent |-> text, tempPlaceholders |-> temps]
    ELSE firstPass(entries, k + 1, draw,
                   replaceRefs(text, entries[k].key, tempPlaceholder(draw[k])),
                   setProperty(temps, tempPlaceholder(draw[k]), entries[k].value))

\* Second pass: [^tempPlaceholder] -> [^newNumber], entry by entry.
RECURSIVE secondPass(_, _, _)
secondPass(entries, k, text) ==
    IF k > Len(entries) THEN text
    ELSE secondPass(entries, k + 1,
                    replaceRefs(text, entries[k].key, entries[k].value))

replaceReferences(text, mapping, draw) ==
    LET first == firstPass(ObjectEntries(mapping), 1, draw, text, << >>)
    IN  secondPass(ObjectEntries(first.tempPlaceholders), 1, first.updatedContent)

(***************************************************************************)
(* Step 6: the sorted definitions appended to the content.                 *)
(***************************************************************************)
RECURSIVE emptyLinesAtEnd(_, _)
emptyLinesAtEnd(contentLines, i) ==
    IF i >= 1 /\ IsBlank(contentLines[i]) THEN 1 + emptyLinesAtEnd(contentLines, i - 1)
    ELSE 0

\* `${def.indentation}[^${def.newNumber}]: ${def.content}`
footnoteLine(def) ==
    def.indentation \o << "[", "^" >> \o def.newNumber \o << "]", ":", " " >>
    \o def.content

\* Step 6 as it would be with one separator after a body that ends with no
\* blank line.
appendDefinitions_OneSeparator(updatedContent, sorted, originalLineEnding) ==
    IF Len(sorted) > 0
    THEN LET contentLines == split(updatedContent)
             empty == emptyLinesAtEnd(contentLines, Len(contentLines))
             spaced == IF empty <= 1 THEN updatedContent \o originalLineEnding
                       ELSE updatedContent
             sortedFootnoteLines == [k \in 1..Len(sorted) |-> footnoteLine(sorted[k])]
         IN  spaced \o join(sortedFootnoteLines, originalLineEnding)
    ELSE updatedContent

appendDefinitions(updatedContent, sorted, originalLineEnding) ==
    IF Len(sorted) > 0
    THEN LET contentLines == split(updatedContent)
             empty == emptyLinesAtEnd(contentLines, Len(contentLines))
             spaced == IF empty = 0
                       THEN updatedContent \o originalLineEnding \o originalLineEnding
                       ELSE IF empty = 1 THEN updatedContent \o originalLineEnding
                       ELSE updatedContent
             sortedFootnoteLines == [k \in 1..Len(sorted) |-> footnoteLine(sorted[k])]
         IN  spaced \o join(sortedFootnoteLines, originalLineEnding)
    ELSE updatedContent

(***************************************************************************)
(* renumberFootnotes(content): the results the call may return, one for    *)
(* every draw of placeholder tokens and every order sort may leave.        *)
(***************************************************************************)
originalLineEnding(content) == IF includesCRLF(content) THEN << CR, LF >> ELSE << LF >>

\* The call with its local variables, for the draws of placeholder tokens
\* in `draws`; what `return` hands back is the fields content, changed and
\* footnoteCount.
renumberSteps(content, draws) ==
    LET ordered == orderedLabels(content)
        mapping == labelToSequentialNumber(ordered)
        lines == split(content)
        footnoteDefinitions == collectDefinitions(lines, 1, mapping)
        nonFootnoteLines == collectNonFootnoteLines(lines, 1, mapping)
        ending == originalLineEnding(content)
        joined == join(nonFootnoteLines, ending)
    IN  IF content = << >> \/ ordered = << >>
        THEN { [content |-> content, changed |-> FALSE, footnoteCount |-> 0,
                labelToSequentialNumber |-> << >>, footnoteDefinitions |-> << >>] }
        ELSE { LET updatedContent ==
                       appendDefinitions(replaceReferences(joined, mapping, draw),
                                         sorted, ending)
               IN  [content |-> updatedContent,
                    changed |-> updatedContent # content,
                    footnoteCount |-> Len(ordered),
                    labelToSequentialNumber |-> mapping,
                    footnoteDefinitions |-> sorted] :
               draw \in draws[Len(mapping)],
               sorted \in sortOutcomes(footnoteDefinitions) }

renumberFootnotes(content) ==
    { [content |-> r.content, changed |-> r.changed,
       footnoteCount |-> r.footnoteCount] : r \in renumberSteps(content, Draws) }

(***************************************************************************)
(* renumberFootnotes called with any JavaScript value.  A value is its     *)
(* typeof and its text; a string's text is its characters.                 *)
(***************************************************************************)
String(text) == [typeof |-> "string", value |-> text]

Number(text) == [typeof |-> "number", value |-> << text >>]

JsNull == [typeof |-> "object", value |-> << "null" >>]

JsUndefined == [typeof |-> "undefined", value |-> << "undefined" >>]

JsFalse == [typeof |-> "boolean", value |-> << "false" >>]

JsTrue == [typeof |-> "boolean", value |-> << "true" >>]

\* !content
IsFalsy(v) ==
    v \in { JsNull, JsUndefined, JsFalse, String(<< >>),
            Number("0"), Number("NaN") }

\* if (!content || typeof content !== "string") return { content: content || "", ... }
renumberFootnotesOf(v) ==
    IF IsFalsy(v) \/ v.typeof # "string"
    THEN { [content |-> IF IsFalsy(v) THEN String(<< >>) ELSE v,
            changed |-> FALSE, footnoteCount |-> 0] }
    ELSE { [content |-> String(r.content), changed |-> r.changed,
            footnoteCount |-> r.footnoteCount] : r \in renumberFootnotes(v.value) }

(***************************************************************************)
(* The editor (Editor of the Obsidian API): the document is one text with  *)
(* "\n" between its lines; a position is a line and a column, both from 0. *)
(***************************************************************************)
\* content.split("\n").
RECURSIVE splitNewline(_, _, _)
splitNewline(text, i, start) ==
    IF i > Len(text) THEN << SubSeq(text, start, Len(text)) >>
    ELSE IF text[i] = LF
         THEN << SubSeq(text, start, i - 1) >> \o splitNewline(text, i + 1, i + 1)
    ELSE splitNewline(text, i + 1, start)

editorLines(text) == splitNewline(text, 1, 1)

\* The number of characters before line k (from 0) of the lines.
RECURSIVE lineStart(_, _)
lineStart(lines, k) ==
    IF k = 0 THEN 0 ELSE lineStart(lines, k - 1) + Len(lines[k]) + 1

\* The number of characters before a position; a line past the last one is
\* the end of the document, a column past the end of its line is that end.
posToOffset(text, pos) ==
    LET lines == editorLines(text)
    IN  IF pos.line >= Len(lines) THEN Len(text)
        ELSE LET len == Len(lines[pos.line + 1])
             IN  lineStart(lines, pos.line) + (IF pos.ch > len THEN len ELSE pos.ch)

\* editor.replaceRange(replacement, from, to).
replaceRange(text, replacement, from, to) ==
    SubSeq(text, 1, posToOffset(text, from)) \o replacement
    \o SubSeq(text, posToOffset(text, to) + 1, Len(text))

\* line.trim().
RECURSIVE trimEnd(_)
trimEnd(line) ==
    IF line # << >> /\ IsWhiteSpace(line[Len(line)])
    THEN trimEnd(SubSeq(line, 1, Len(line) - 1))
    ELSE line

trim(line) == trimEnd(SubSeq(line, skipWhiteSpace(line, 1), Len(line)))

(***************************************************************************)
(* getNextFootnoteNumber(content).                                         *)
(***************************************************************************)
\* /\[\^([^\]]+)\]/ anchored at position i: 0 when there is no match, else
\* the position of the closing ']'.
anyLabelAt(s, i) ==
    IF At(s, i) = "[" /\ At(s, i + 1) = "^"
    THEN LET j == skipToBracket(s, i + 2)
         IN  IF j > i + 2 /\ At(s, j) = "]" THEN j ELSE 0
    ELSE 0

\* content.match(/\[\^([^\]]+)\]/g): the labels of the successive matches.
RECURSIVE footnoteRefs(_, _)
footnoteRefs(s, i) ==
    IF i > Len(s) THEN << >>
    ELSE LET j == anyLabelAt(s, i)
         IN  IF j = 0 THEN footnoteRefs(s, i + 1)
             ELSE << SubSeq(s, i + 2, j - 1) >> \o footnoteRefs(s, j + 1)

\* content.match(/^\[\^([^\]]+)\]:/gm): '^' matches at the start of the text
\* and after a line terminator.
RECURSIVE footnoteDefs(_, _)
footnoteDefs(s, i) ==
    IF i > Len(s) THEN << >>
    ELSE LET j == anyLabelAt(s, i)
         IN  IF j # 0 /\ At(s, j + 1) = ":" /\ (i = 1 \/ IsLineTerminator(s[i - 1]))
             THEN << SubSeq(s, i + 2, j - 1) >> \o footnoteDefs(s, j + 2)
             ELSE footnoteDefs(s, i + 1)

Range(seq) == { seq[k] : k \in 1..Len(seq) }

allFootnotes(content) ==
    Range(footnoteRefs(content, 1)) \cup Range(footnoteDefs(content, 1))

\* maxNumber starts at 0 and rises to every parseInt(label) above it.
getNextFootnoteNumber(content) ==
    LET numbers == { parseInt(label) : label \in allFootnotes(content) } \ { NaN }
        maxNumber == IF numbers \ { 0 } = { } THEN 0
                     ELSE CHOOSE n \in numbers : \A m \in numbers : m <= n
    IN  maxNumber + 1

(***************************************************************************)
(* addFootnoteDefinition(editor, footnoteNumber, footnoteText), up to its  *)
(* call of renumberFootnotes.  Lines are counted from 1 here; the field    *)
(* `line` of a footnote keeps the code's count from 0.                     *)
(***************************************************************************)
\* line.match(/^\[\^[^\]]+\]:/) on the trimmed line.
opensFootnote(line) ==
    LET j == anyLabelAt(line, 1)
    IN  j # 0 /\ At(line, j + 1) = ":"

\* The loop from the bottom: the topmost definition line under the last
\* line that is neither blank nor a definition; 0 for the code's -1.
RECURSIVE footnoteStartLine(_, _, _)
footnoteStartLine(lines, i, found) ==
    IF i < 1 THEN found
    ELSE LET line == trim(lines[i])
         IN  IF opensFootnote(line) THEN footnoteStartLine(lines, i - 1, i)
             ELSE IF line # << >> THEN found
             ELSE footnoteStartLine(lines, i - 1, found)

SortLimit == 9999

\* The definitions from footnoteStartLine to the end of the document.
RECURSIVE existingFootnotes(_, _)
existingFootnotes(lines, i) ==
    IF i > Len(lines) THEN << >>
    ELSE LET match == defMatch(lines[i])
             num == IF match.matched THEN parseInt(match.originalLabel) ELSE NaN
         IN  (IF match.matched
              THEN << [line |-> i - 1,
                       number |-> IF num = NaN THEN SortLimit + (i - 1) ELSE num,
                       text |-> match.defContent,
                       originalLabel |-> match.originalLabel] >>
              ELSE << >>)
             \o existingFootnotes(lines, i + 1)

\* The comparator of existingFootnotes.sort.
compareFootnotes(a, b) ==
    IF a.number < SortLimit /\ b.number < SortLimit THEN a.number - b.number
    ELSE IF a.number < SortLimit THEN -1
    ELSE IF b.number < SortLimit THEN 1
    ELSE a.line - b.line

RECURSIVE insertFootnote(_, _)
insertFootnote(sorted, fn) ==
    IF sorted = << >> THEN << fn >>
    ELSE IF compareFootnotes(sorted[1], fn) > 0 THEN << fn >> \o sorted
    ELSE << sorted[1] >> \o insertFootnote(Tail(sorted), fn)

RECURSIVE sortFootnotes(_, _, _)
sortFootnotes(footnotes, k, acc) ==
    IF k > Len(footnotes) THEN acc
    ELSE sortFootnotes(footnotes, k + 1, insertFootnote(acc, footnotes[k]))

\* How many blank lines end at line i.
RECURSIVE emptyLinesUpTo(_, _)
emptyLinesUpTo(lines, i) ==
    IF i >= 1 /\ trim(lines[i]) = << >> THEN 1 + emptyLinesUpTo(lines, i - 1)
    ELSE 0

spacingPrefix(lines, start) ==
    IF start # 0
    THEN IF emptyLinesUpTo(lines, start - 1) = 0 THEN << LF >> ELSE << >>
    ELSE LET emptyLinesAtEndOfDocument == emptyLinesUpTo(lines, Len(lines))
         IN  IF emptyLinesAtEndOfDocument = 0 THEN << LF, LF >>
             ELSE IF emptyLinesAtEndOfDocument = 1 THEN << LF >>
             ELSE << >>

\* The text of the editor after the replaceRange of the footnote section.
addFootnoteDefinition(content, footnoteNumber, footnoteText) ==
    LET lines == editorLines(content)
        start == footnoteStartLine(lines, Len(lines), 0)
        collected == (IF start # 0 THEN existingFootnotes(lines, start) ELSE << >>)
                     \o << [line |-> -1, number |-> footnoteNumber,
                             text |-> footnoteText,
                             originalLabel |-> toString(footnoteNumber)] >>
        sorted == sortFootnotes(collected, 1, << >>)
        footnoteLines == [k \in 1..Len(sorted) |->
                             << "[", "^" >> \o sorted[k].originalLabel
                             \o << "]", ":", " " >> \o sorted[k].text]
        footnoteSection == spacingPrefix(lines, start) \o join(footnoteLines, << LF >>)
    IN  IF start # 0
        THEN replaceRange(content, footnoteSection,
                          [line |-> start - 1, ch |-> 0],
                          [line |-> Len(lines), ch |-> 0])
        ELSE replaceRange(content, footnoteSection,
                          [line |-> Len(lines), ch |-> 0],
                          [line |-> Len(lines), ch |-> 0])

(***************************************************************************)
(* The documents the editor may hold when the command is first run: every  *)
(* concatenation of at most MaxPieces pieces.                              *)
(***************************************************************************)
ref(label) == << "[", "^" >> \o label \o << "]" >>

def(label) == ref(label) \o << ":", " ", "t" >>

RECURSIVE Concatenations(_, _)
Concatenations(pieces, n) ==
    IF n = 0 THEN { << >> }
    ELSE LET shorter == Concatenations(pieces, n - 1)
         IN  shorter \cup { d \o p : d \in shorter, p \in pieces }

PiecesOf(labels) == { ref(l) : l \in labels } \cup { def(l) : l \in labels }

\* Numeric and alphabetic labels, and labels that name a method and an
\* accessor of Object.prototype; text, a colon and line feeds around them.
Labels == { << "1" >>, << "2" >>, << "a" >>, << "constructor" >>, ProtoAccessor }

Documents ==
    Concatenations({ << "x" >>, << ":" >>, << LF >> } \cup PiecesOf(Labels),
                   MaxPieces)

\* Numeric and alphabetic labels and a label with an escaped ']'; text, a
\* colon, white space and both line endings around them.
PlainLabels == { << "1" >>, << "2" >>, << "a" >>, << "a", BS, "]", "b" >> }

PlainDocuments ==
    Concatenations({ << "x" >>, << " " >>, << ":" >>, << LF >>, << CR, LF >> }
                       \cup PiecesOf(PlainLabels),
                   MaxPieces)

\* One footnote, text and line feeds: the documents that differ in the blank
\* lines around the definition and in the final line terminator.
SpacingDocuments ==
    Concatenations({ << "x" >>, << LF >>, ref(<< "1" >>), def(<< "1" >>) },
                   MaxSpacingPieces)

\* One footnote, text, and the characters "\r" and "\n" on their own: the
\* documents with "\n", "\r\n" and lone "\r" in every mixture.
EndingDocuments ==
    Concatenations({ << "x" >>, << LF >>, << CR >>, ref(<< "1" >>), def(<< "1" >>) },
                   MaxEndingPieces)

\* The values a caller may pass: strings, the empty string among them, and
\* values of every other type, falsy and truthy.
Arguments ==
    { String(d) : d \in Concatenations({ << "x" >>, << LF >>, ref(<< "1" >>),
                                         ref(<< "2" >>), def(<< "2" >>) },
                                       MaxArgumentPieces) }
    \cup { JsNull, JsUndefined, JsFalse, JsTrue }
    \cup { Number(n) : n \in { "0", "NaN", "1", "42", "-1" } }
    \cup { [typeof |-> "object", value |-> << "{}" >>],
           [typeof |-> "object", value |-> << "[]" >>],
           [typeof |-> "function", value |-> << "() => {}" >>] }

\* Labels that are numbers of one and two digits, a word, and a number
\* followed by a letter: the labels getNextFootnoteNumber chooses among.
NumberingLabels ==
    { << "1" >>, << "2" >>, << "1", "0" >>, << "a" >>, << "2", "a" >> }

NumberingDocuments ==
    Concatenations({ << "x" >>, << LF >> } \cup PiecesOf(NumberingLabels),
                   MaxNumberingPieces)

\* Documents made of whole lines: two texts, a blank line, lines with
\* references, two definitions with a reference and one without.
OrphanLines ==
    { << "x" >>, << "y" >>, << >>, ref(<< "1" >>), ref(<< "2" >>) \o ref(<< "1" >>),
      def(<< "1" >>), def(<< "2" >>), def(<< "a" >>) }

RECURSIVE LinesJoined(_, _)
LinesJoined(lines, n) ==
    IF n = 1 THEN lines
    ELSE LET shorter == LinesJoined(lines, n - 1)
         IN  shorter \cup { d \o << LF >> \o l : d \in shorter, l \in lines }

OrphanDocuments == LinesJoined(OrphanLines, MaxOrphanLines)

\* Lines with a label whose text holds "[^" and another label.
NestedLabel == << "2", "[", "^", "1" >>

NestedLines ==
    { << "x" >>, << >>, ref(<< "1" >>), ref(NestedLabel), ref(NestedLabel) \o ref(<< "1" >>),
      def(<< "1" >>), def(NestedLabel) }

NestedDocuments == LinesJoined(NestedLines, MaxNestedLines)

\* Documents that end with a footnote section: text, blank lines and
\* definitions with numeric and other labels, joined by "\n" or by "\r\n".
SectionLines ==
    { << "x" >>, << >>, def(<< "1" >>), def(<< "2" >>), def(<< "a" >>) }

RECURSIVE LineSequences(_, _)
LineSequences(lines, n) ==
    IF n = 0 THEN { << >> }
    ELSE LET shorter == LineSequences(lines, n - 1)
         IN  shorter \cup { Append(d, l) : d \in shorter, l \in lines }

SectionDocuments ==
    { join(lines, ending) : lines \in LineSequences(SectionLines, MaxSectionLines),
                            ending \in { << LF >>, << CR, LF >> } }

\* The documents in the shape the plugin leaves: text with the references
\* 1..n in this order, one blank line, the definitions 1..n, with and
\* without a final line terminator.
RECURSIVE ShapedBody(_)
ShapedBody(n) ==
    IF n = 0 THEN << "x" >> ELSE ShapedBody(n - 1) \o ref(toString(n)) \o << "x" >>

InitialTexts == << "a", "b", "c" >>

RECURSIVE ShapedBlock(_)
ShapedBlock(n) ==
    IF n = 0 THEN << >>
    ELSE ShapedBlock(n - 1) \o << LF >> \o ref(toString(n))
         \o << ":", " ", InitialTexts[n] >>

ShapedDocuments ==
    { ShapedBody(n) \o (IF n = 0 THEN << >> ELSE << LF >> \o ShapedBlock(n)) \o end :
        n \in 0..MaxFootnotes, end \in { << >>, << LF >> } }

\* What the user types into the modal, trimmed: another text in the next
\* insertion.
FootnoteTexts == << << "t" >>, << "u" >> >>

(***************************************************************************)
(* The plugin: the editor's document and the renumber command              *)
(* (BetterFootnotes.renumberFootnotes).                                    *)
(***************************************************************************)
\* content: the editor's document; input, result, locals: the argument,
\* the return value and the local variables of the last call of
\* renumberFootnotes; runs: the number of commands run so far.
\* cursor: the editor's cursor; modals: the open FootnoteInputModals, each
\* with what its callback captured when the command was triggered;
\* backups: the contents of the files written to the backups folder.
\* now: the clock (Date.now()), in days.
\* backupFolder: the backups folder as the adapter shows it.
\* cleanup: the position of cleanupOldBackups and what it has done.
VARIABLES content, input, result, locals, runs, cursor, modals, backups,
          now, backupFolder, cleanup

vars == << content, input, result, locals, runs, cursor, modals, backups,
          now, backupFolder, cleanup >>

\* 30 * 24 * 60 * 60 * 1000 milliseconds, in days.
ThirtyDays == 30

\* cleanupOldBackups has not been called.
NoCleanup ==
    /\ now = ThirtyDays + 1
    /\ backupFolder = [exists |-> FALSE, listFails |-> FALSE, files |-> << >>]
    /\ cleanup = [pc |-> "idle", listed |-> FALSE, thirtyDaysAgo |-> 0,
                  index |-> 0, examined |-> { }, removed |-> { }]

\* No insert command has been triggered.
NoInsertion ==
    /\ cursor = [line |-> 0, ch |-> 0]
    /\ modals = << >>
    /\ backups = { }

Start(documents) ==
    /\ NoInsertion
    /\ NoCleanup
    /\ content \in documents
    /\ input = << >>
    /\ result = [content |-> << >>, changed |-> FALSE, footnoteCount |-> 0]
    /\ locals = [labelToSequentialNumber |-> << >>, footnoteDefinitions |-> << >>]
    /\ runs = 0

\* const result = renumberFootnotes(editor.getValue());
\* if (result.changed) editor.setValue(result.content);
Renumber(draws) ==
    /\ runs < MaxRuns
    /\ \E r \in renumberSteps(content, draws) :
          /\ input' = content
          /\ result' = [content |-> r.content, changed |-> r.changed,
                        footnoteCount |-> r.footnoteCount]
          /\ locals' = [labelToSequentialNumber |-> r.labelToSequentialNumber,
                        footnoteDefinitions |-> r.footnoteDefinitions]
          /\ content' = IF r.changed THEN r.content ELSE content
    /\ runs' = runs + 1
    /\ UNCHANGED << cursor, modals, backups, now, backupFolder, cleanup >>

\* Every document, every draw of placeholder tokens.
Init == Start(Documents)

RenumberCommand == Renumber(Draws)

Next == RenumberCommand

Spec == Init /\ [][Next]_vars

\* The runs on documents whose labels name no property of Object.prototype,
\* in which the placeholder tokens of a call are pairwise different.
InitFresh == Start(PlainDocuments)

RenumberCommandFresh == Renumber(FreshDraws)

NextFresh == RenumberCommandFresh

SpecFresh == InitFresh /\ [][NextFresh]_vars

\* The runs on the documents with one footnote and any spacing.
InitSpacing == Start(SpacingDocuments)

SpecSpacing == InitSpacing /\ [][Next]_vars

\* The runs on the documents with one footnote and any line endings.
InitEndings == Start(EndingDocuments)

SpecEndings == InitEndings /\ [][Next]_vars

\* The runs on the documents made of whole lines.
InitOrphans == Start(OrphanDocuments)

SpecOrphans == InitOrphans /\ [][Next]_vars

\* The runs on the documents with a label inside a label, in which the
\* placeholder tokens of a call are pairwise different.
InitNested == Start(NestedDocuments)

SpecNested == InitNested /\ [][NextFresh]_vars

\* Direct calls renumberFootnotes(content) with any value, as the tests
\* make them; the argument and the returned record are values, and the
\* calls are repeated with the same argument.
InitArguments ==
    /\ NoInsertion
    /\ NoCleanup
    /\ content \in Arguments
    /\ input = JsUndefined
    /\ result = [content |-> String(<< >>), changed |-> FALSE, footnoteCount |-> 0]
    /\ locals = [labelToSequentialNumber |-> << >>, footnoteDefinitions |-> << >>]
    /\ runs = 0

CallRenumberFootnotes ==
    /\ runs < MaxRuns
    /\ \E r \in renumberFootnotesOf(content) :
          /\ input' = content
          /\ result' = r
    /\ runs' = runs + 1
    /\ UNCHANGED << content, locals, cursor, modals, backups, now, backupFolder, cleanup >>

NextArguments == CallRenumberFootnotes

SpecArguments == InitArguments /\ [][NextArguments]_vars

(***************************************************************************)
(* The insert-footnote command (insertCustomFootnote), its modal           *)
(* (FootnoteInputModal) and the insertion its confirmation runs            *)
(* (insertFootnoteReferenceAndDefinition).                                 *)
(***************************************************************************)
Positions(text) ==
    LET lines == editorLines(text)
    IN  { [line |-> l, ch |-> c] : l \in 0..(Len(lines) - 1), c \in 0..Len(text) }
        \cap { pos \in [line : 0..(Len(lines) - 1), ch : 0..Len(text)] :
                  pos.ch <= Len(lines[pos.line + 1]) }

\* /\[\^\d+\]/ anchored at position i: 0 when there is no match, else the
\* position of the closing ']'.
RECURSIVE skipDigits(_, _)
skipDigits(s, i) == IF i <= Len(s) /\ IsDigit(s[i]) THEN skipDigits(s, i + 1) ELSE i

numberedRefAt(s, i) ==
    IF At(s, i) = "[" /\ At(s, i + 1) = "^"
    THEN LET j == skipDigits(s, i + 2)
         IN  IF j > i + 2 /\ At(s, j) = "]" THEN j ELSE 0
    ELSE 0

\* The cursor set at the end of insertFootnoteReferenceAndDefinition: after
\* the first numbered reference behind the original column of the line, or
\* behind the inserted reference's length; the editor's cursor stays when
\* the document has no such line any more.
newCursorPos(newContent, at, footnoteRef, editorCursor) ==
    LET lines == editorLines(newContent)
    IN  IF at.line < Len(lines)
        THEN LET lineContent == lines[at.line + 1]
                 matches == { i \in (at.ch + 1)..Len(lineContent) :
                                numberedRefAt(lineContent, i) # 0 }
                 ch == IF matches # { }
                       THEN numberedRefAt(lineContent,
                                CHOOSE i \in matches : \A k \in matches : i <= k)
                       ELSE at.ch + Len(footnoteRef)
             IN  [line |-> at.line,
                  ch |-> IF ch > Len(lineContent) THEN Len(lineContent) ELSE ch]
        ELSE editorCursor

RemoveAt(seq, k) == SubSeq(seq, 1, k - 1) \o SubSeq(seq, k + 1, Len(seq))

\* The command as it would be if it wrote the reference when triggered.
InsertCustomFootnote_ImmediateReference ==
    /\ Len(modals) < MaxModals
    /\ runs + Len(modals) < MaxRuns
    /\ \E pos \in Positions(content), written \in BOOLEAN :
          /\ backups' = IF written THEN backups \cup { content } ELSE backups
          /\ modals' = Append(modals,
                              [cursor |-> pos,
                               nextFootnoteNumber |-> getNextFootnoteNumber(content),
                               backup |-> written])
          /\ content' = replaceRange(content,
                                     ref(toString(getNextFootnoteNumber(content))),
                                     pos, pos)
    /\ UNCHANGED << input, result, locals, runs, cursor, now, backupFolder, cleanup >>

\* The command: createBackup writes the file's content to the backups
\* folder or fails and logs the error; the position of the user's cursor
\* and the next footnote number are captured, and the modal opens.  The
\* variable cursor is the position the plugin has set last.
InsertCustomFootnote ==
    /\ Len(modals) < MaxModals
    /\ runs + Len(modals) < MaxRuns
    /\ \E pos \in Positions(content), written \in BOOLEAN :
          /\ backups' = IF written THEN backups \cup { content } ELSE backups
          /\ modals' = Append(modals,
                              [cursor |-> pos,
                               nextFootnoteNumber |-> getNextFootnoteNumber(content),
                               backup |-> written])
    /\ UNCHANGED << content, input, result, locals, runs, cursor, now, backupFolder,
                   cleanup >>

\* submitFootnote with a text that is not blank: the callback inserts the
\* reference at the captured cursor, adds the definition, renumbers and
\* sets the cursor; the modal closes.
SubmitFootnote(k) ==
    /\ runs < MaxRuns
    /\ LET footnoteText == FootnoteTexts[(runs % Len(FootnoteTexts)) + 1]
              at == modals[k].cursor
              footnoteNumber == modals[k].nextFootnoteNumber
              footnoteRef == ref(toString(footnoteNumber))
              withReference == replaceRange(content, footnoteRef, at, at)
              withDefinition == addFootnoteDefinition(withReference, footnoteNumber,
                                                      footnoteText)
      IN  \E r \in renumberSteps(withDefinition, Draws) :
             LET newContent == IF r.changed THEN r.content ELSE withDefinition
             IN  /\ input' = withDefinition
                 /\ result' = [content |-> r.content, changed |-> r.changed,
                               footnoteCount |-> r.footnoteCount]
                 /\ locals' = [labelToSequentialNumber |-> r.labelToSequentialNumber,
                               footnoteDefinitions |-> r.footnoteDefinitions]
                 /\ content' = newContent
                 /\ cursor' = newCursorPos(newContent, at, footnoteRef, cursor)
    /\ runs' = runs + 1
    /\ modals' = RemoveAt(modals, k)
    /\ UNCHANGED << backups, now, backupFolder, cleanup >>

\* submitFootnote with a blank text: nothing happens, the modal stays open.
SubmitBlank(k) ==
    /\ k \in 1..Len(modals)
    /\ UNCHANGED vars

\* The Cancel button or the Escape key: the modal closes.
CancelModal(k) ==
    /\ modals' = RemoveAt(modals, k)
    /\ UNCHANGED << content, input, result, locals, runs, cursor, backups, now,
                   backupFolder, cleanup >>

InitPlugin == Start(ShapedDocuments)

NextPlugin ==
    \/ InsertCustomFootnote
    \/ \E k \in 1..Len(modals) : SubmitFootnote(k)
    \/ \E k \in 1..Len(modals) : SubmitBlank(k)
    \/ \E k \in 1..Len(modals) : CancelModal(k)

SpecPlugin == InitPlugin /\ [][NextPlugin]_vars

\* addFootnoteDefinition called with the next footnote number, as the
\* insertion calls it: the section is replaced and the document renumbered.
InitSection == Start(SectionDocuments)

CallAddFootnoteDefinition ==
    /\ runs < MaxRuns
    /\ LET footnoteNumber == getNextFootnoteNumber(content)
           withDefinition == addFootnoteDefinition(content, footnoteNumber,
                                                   FootnoteTexts[(runs % Len(FootnoteTexts)) + 1])
       IN  \E r \in renumberSteps(withDefinition, Draws) :
              /\ input' = withDefinition
              /\ result' = [content |-> r.content, changed |-> r.changed,
                            footnoteCount |-> r.footnoteCount]
              /\ locals' = [labelToSequentialNumber |-> r.labelToSequentialNumber,
                            footnoteDefinitions |-> r.footnoteDefinitions]
              /\ content' = IF r.changed THEN r.content ELSE withDefinition
    /\ runs' = runs + 1
    /\ UNCHANGED << cursor, modals, backups, now, backupFolder, cleanup >>

NextSection == CallAddFootnoteDefinition

SpecSection == InitSection /\ [][NextSection]_vars

\* The command triggered on documents with any labels, and its modal
\* dismissed: the numbers getNextFootnoteNumber hands to the modal.
InitNumbering == Start(NumberingDocuments)

NextNumbering ==
    \/ InsertCustomFootnote
    \/ \E k \in 1..Len(modals) : SubmitBlank(k)
    \/ \E k \in 1..Len(modals) : CancelModal(k)

SpecNumbering == InitNumbering /\ [][NextNumbering]_vars

(***************************************************************************)
(* cleanupOldBackups: the backups folder is listed and every entry older   *)
(* than thirty days is removed.  Each await is a step; the clock runs on   *)
(* between the steps.                                                      *)
(***************************************************************************)
\* What the adapter does with an entry: stat answers, answers null or
\* throws, remove succeeds or throws.
FileFaults == { "none", "null", "stat", "remove" }

\* Entries created 31, 30 and 29 days before the start and at the start.
Ctimes == { 0, 1, 2, ThirtyDays + 1 }

FolderEntries == [type : { "file", "folder" }, ctime : Ctimes, fault : FileFaults]

RECURSIVE Listings(_)
Listings(n) ==
    IF n = 0 THEN { << >> }
    ELSE LET shorter == Listings(n - 1)
         IN  shorter \cup { l \o << e >> : l \in shorter, e \in FolderEntries }

BackupFolders ==
    { [exists |-> FALSE, listFails |-> FALSE, files |-> << >>] }
    \cup { [exists |-> TRUE, listFails |-> f, files |-> l] :
             f \in BOOLEAN, l \in Listings(MaxFiles) }

\* fileStats && fileStats.type === "file" && fileStats.ctime < thirtyDaysAgo,
\* with the age test as it would be with <=.
shouldRemove_AtThirtyDays(entry, thirtyDaysAgo) ==
    /\ entry.fault # "null"
    /\ entry.type = "file"
    /\ entry.ctime <= thirtyDaysAgo

\* fileStats && fileStats.type === "file" && fileStats.ctime < thirtyDaysAgo
shouldRemove(entry, thirtyDaysAgo) ==
    /\ entry.fault # "null"
    /\ entry.type = "file"
    /\ entry.ctime < thirtyDaysAgo

InitCleanup ==
    /\ NoInsertion
    /\ content = << >> /\ input = << >> /\ runs = 0
    /\ result = [content |-> << >>, changed |-> FALSE, footnoteCount |-> 0]
    /\ locals = [labelToSequentialNumber |-> << >>, footnoteDefinitions |-> << >>]
    /\ now = ThirtyDays + 1
    /\ backupFolder \in BackupFolders
    /\ cleanup = [pc |-> "idle", listed |-> FALSE, thirtyDaysAgo |-> 0,
                  index |-> 0, examined |-> { }, removed |-> { }]

\* exists(backupFolder), list(backupFolder), Date.now(): without the folder
\* the function returns; a list that throws ends it in the outer catch.
CleanupList ==
    /\ cleanup.pc = "idle"
    /\ cleanup' =
          IF ~backupFolder.exists
          THEN [cleanup EXCEPT !.pc = "done"]
          ELSE IF backupFolder.listFails
          THEN [cleanup EXCEPT !.pc = "done", !.listed = TRUE]
          ELSE [cleanup EXCEPT !.pc = IF backupFolder.files = << >> THEN "done"
                                      ELSE "loop",
                               !.listed = TRUE,
                               !.thirtyDaysAgo = now - ThirtyDays,
                               !.index = 1]
    /\ UNCHANGED << content, input, result, locals, runs, cursor, modals, backups,
                    now, backupFolder >>

\* One turn of the loop: stat, the test, remove; an error of stat or remove
\* is caught inside the loop and logged.
CleanupFile ==
    /\ cleanup.pc = "loop"
    /\ LET i == cleanup.index
           entry == backupFolder.files[i]
           removes == /\ entry.fault \notin { "stat", "remove" }
                      /\ shouldRemove(entry, cleanup.thirtyDaysAgo)
       IN  cleanup' =
             [cleanup EXCEPT !.examined = @ \cup { i },
                             !.removed = IF removes THEN @ \cup { i } ELSE @,
                             !.index = i + 1,
                             !.pc = IF i = Len(backupFolder.files) THEN "done"
                                    ELSE "loop"]
    /\ UNCHANGED << content, input, result, locals, runs, cursor, modals, backups,
                    now, backupFolder >>

\* A day passes.
Tick ==
    /\ now < ThirtyDays + 1 + MaxTicks
    /\ now' = now + 1
    /\ UNCHANGED << content, input, result, locals, runs, cursor, modals, backups,
                    backupFolder, cleanup >>

NextCleanup == CleanupList \/ CleanupFile \/ Tick

SpecCleanup == InitCleanup /\ [][NextCleanup]_vars

(***************************************************************************)
(* Vocabulary of the properties.                                           *)
(***************************************************************************)
\* The reference occurrences of a text, left to right.
References(text) == footnoteRefRegex(text, 1)

ReferencedLabels(text) == { References(text)[m].label : m \in 1..Len(References(text)) }

\* How many reference occurrences of a text carry a label.
Occurrences(text, label) ==
    Cardinality({ m \in 1..Len(References(text)) : References(text)[m].label = label })

\* The 1-based position of a label among the distinct labels of a text, in
\* the order of their first reference occurrence.
RankOf(text, label) ==
    LET occ == References(text)
        first == CHOOSE m \in 1..Len(occ) :
                    /\ occ[m].label = label
                    /\ \A n \in 1..(m - 1) : occ[n].label # label
    IN  Cardinality({ occ[n].label : n \in 1..first })

\* Character k of s is escaped: an odd number of backslashes, counted back
\* to position a at most, stands right before it.
Escaped(s, a, k) ==
    \E m \in a..(k - 1) :
        /\ \A q \in m..(k - 1) : s[q] = BS
        /\ (m = a \/ s[m - 1] # BS)
        /\ (k - m) % 2 = 1

\* s[a..b] is a label: one or more characters in which every ']' is
\* escaped, no line terminator is, and no escaping backslash is the last.
IsLabelText(s, a, b) ==
    /\ a <= b
    /\ \A k \in a..b :
          /\ s[k] = "]" => Escaped(s, a, k)
          /\ IsLineTerminator(s[k]) => ~Escaped(s, a, k)
          /\ (s[k] = BS /\ ~Escaped(s, a, k)) => k < b

\* The text holds a reference occurrence: "[^", a label, "]", no ':' next.
HasReference(s) ==
    \E i \in 1..Len(s) :
        /\ s[i] = "[" /\ At(s, i + 1) = "^"
        /\ \E j \in (i + 3)..Len(s) :
              /\ s[j] = "]" /\ At(s, j + 1) # ":"
              /\ IsLabelText(s, i + 2, j - 1)

\* The line opens a definition: white space, "[^", a label without ']',
\* "]:".
OpensDefinition(line) == defMatch(line).matched

Ran == runs >= 1

(***************************************************************************)
(* C1.  Idempotence: a second run of the command, on the document the      *)
(* first run left, changes nothing (changed = false, same content).        *)
(* The code does not satisfy this.                                         *)
(***************************************************************************)
C1_Idempotent ==
    runs = 2 => (~result.changed /\ result.content = input)

(***************************************************************************)
(* C2.  Ordering: every referenced label is assigned, in                   *)
(* labelToSequentialNumber, its rank among the distinct labels in order of *)
(* first reference occurrence, whatever the label is.                      *)
(* The code does not satisfy this.                                         *)
(***************************************************************************)
C2_FirstAppearanceOrder ==
    Ran => \A label \in ReferencedLabels(input) :
              /\ HasOwn(locals.labelToSequentialNumber, label)
              /\ parseInt(Lookup(locals.labelToSequentialNumber, label))
                     = RankOf(input, label)

(***************************************************************************)
(* C3.  Duplicate stability: the references of the output are numbered     *)
(* 1..N only, N the number of distinct labels of the input, and the k-th   *)
(* label's number occurs as often as the label did.                        *)
(* The code does not satisfy this.                                         *)
(***************************************************************************)
NumberTexts(n) == { toString(k) : k \in 1..n }

C3_DuplicatesShareNumber ==
    (Ran /\ HasReference(input)) =>
        /\ ReferencedLabels(result.content)
               = NumberTexts(Cardinality(ReferencedLabels(input)))
        /\ \A label \in ReferencedLabels(input) :
              Occurrences(result.content, toString(RankOf(input, label)))
                  = Occurrences(input, label)

(***************************************************************************)
(* C4.  Sorted block: when a referenced label has a definition line, the   *)
(* last lines of the output are the definition lines of the referenced     *)
(* labels, each with its label's number and its text, in ascending order   *)
(* of number, wherever they stood in the input.                            *)
(* The code does not satisfy this.                                         *)
(***************************************************************************)
\* The definition lines of a text whose label has a reference occurrence.
LiveDefinitions(text) ==
    SelectSeq(split(text),
              LAMBDA line : /\ OpensDefinition(line)
                            /\ defMatch(line).originalLabel \in ReferencedLabels(text))

Bijections(n) ==
    { p \in [1..n -> 1..n] : \A i, j \in 1..n : p[i] = p[j] => i = j }

C4_SortedBlockAtEnd ==
    (Ran /\ LiveDefinitions(input) # << >>) =>
        LET live == LiveDefinitions(input)
            n == Len(live)
            out == split(result.content)
            block == [k \in 1..n |-> defMatch(out[Len(out) - n + k])]
        IN  /\ Len(out) >= n
            /\ \A k \in 1..n : block[k].matched
            /\ \A k \in 1..(n - 1) :
                  parseInt(block[k].originalLabel) <= parseInt(block[k + 1].originalLabel)
            /\ \E p \in Bijections(n) :
                  \A k \in 1..n :
                      /\ block[p[k]].originalLabel
                             = toString(RankOf(input, defMatch(live[k]).originalLabel))
                      /\ block[p[k]].defContent = defMatch(live[k]).defContent

(***************************************************************************)
(* C5.  Linkage: for every referenced label L and every input line         *)
(* "[^L]: text", some output line is "[^k]: text" with k the number of L,  *)
(* also for a label with an escaped ']'.                                   *)
(* The code does not satisfy this.                                         *)
(***************************************************************************)
\* The line is white space, "[^", the label, "]:", and a text.
IsDefinitionOf(line, label) ==
    LET a == skipWhiteSpace(line, 1)
    IN  /\ At(line, a) = "[" /\ At(line, a + 1) = "^"
        /\ \A k \in 1..Len(label) : At(line, a + 1 + k) = label[k]
        /\ At(line, a + Len(label) + 2) = "]"
        /\ At(line, a + Len(label) + 3) = ":"

DefinitionText(line, label) ==
    LET a == skipWhiteSpace(line, 1)
    IN  SubSeq(line, skipWhiteSpace(line, a + Len(label) + 4), Len(line))

C5_LinkagePreserved ==
    Ran => \A label \in ReferencedLabels(input) :
              \A i \in 1..Len(split(input)) :
                  IsDefinitionOf(split(input)[i], label) =>
                      \E j \in 1..Len(split(result.content)) :
                          LET number == toString(RankOf(input, label))
                              line == split(result.content)[j]
                          IN  /\ IsDefinitionOf(line, number)
                              /\ DefinitionText(line, number)
                                     = DefinitionText(split(input)[i], label)

(***************************************************************************)
(* C6.  Orphan preservation: a definition line whose label has no          *)
(* reference occurrence is a line of the output, character for character.  *)
(* The code does not satisfy this.                                         *)
(***************************************************************************)
C6_OrphanUntouched ==
    Ran => \A i \in 1..Len(split(input)) :
              LET line == split(input)[i]
              IN  (/\ OpensDefinition(line)
                   /\ defMatch(line).originalLabel \notin ReferencedLabels(input))
                  => \E j \in 1..Len(split(result.content)) :
                         split(result.content)[j] = line

(***************************************************************************)
(* C7.  No reference: a document without a reference occurrence is         *)
(* returned as it is, with changed = false and footnoteCount = 0; "[^x]:"  *)
(* is not counted as a reference.                                          *)
(***************************************************************************)
C7_NoReferenceUnchanged ==
    (Ran /\ ~HasReference(input)) =>
        /\ result.content = input
        /\ ~result.changed
        /\ result.footnoteCount = 0

\* A run on a document that holds a definition line and no reference.
C7_Witness ==
    /\ Ran
    /\ ~HasReference(input)
    /\ \E i \in 1..Len(split(input)) : OpensDefinition(split(input)[i])
    /\ result.content = input /\ result.footnoteCount = 0

(***************************************************************************)
(* C8.  Already sequential: a document whose references are labelled 1..N  *)
(* in order of first appearance and that ends with the definitions 1..N in *)
(* that order, after exactly one blank line that follows the body or       *)
(* opens the document, with or without a final line terminator, is         *)
(* returned as it is with changed = false.                                 *)
(* The code does not satisfy this.                                         *)
(***************************************************************************)
\* The lines of a text, without the empty line a final terminator leaves.
LinesOf(text) ==
    LET lines == split(text)
    IN  IF Len(lines) > 1 /\ lines[Len(lines)] = << >>
        THEN SubSeq(lines, 1, Len(lines) - 1)
        ELSE lines

\* How many definition lines end the sequence of lines.
RECURSIVE TrailingDefinitions(_, _)
TrailingDefinitions(lines, i) ==
    IF i >= 1 /\ OpensDefinition(lines[i]) THEN 1 + TrailingDefinitions(lines, i - 1)
    ELSE 0

AlreadySequential(text) ==
    LET lines == LinesOf(text)
        n == TrailingDefinitions(lines, Len(lines))
        b == Len(lines) - n
    IN  /\ n >= 1
        /\ \A k \in 1..n :
              LET m == defMatch(lines[b + k])
              IN  /\ m.originalLabel = toString(k)
                  /\ lines[b + k] = footnoteLine([indentation |-> m.indentation,
                                                  newNumber |-> toString(k),
                                                  content |-> m.defContent])
        /\ b >= 1
        /\ lines[b] = << >>
        /\ b = 1 \/ ~IsBlank(lines[b - 1])
        /\ \A k \in 1..b : ~OpensDefinition(lines[k])
        /\ ReferencedLabels(text) = NumberTexts(n)
        /\ \A label \in ReferencedLabels(text) : parseInt(label) = RankOf(text, label)

C8_SequentialUnchanged ==
    (Ran /\ AlreadySequential(input)) =>
        (result.content = input /\ ~result.changed)

(***************************************************************************)
(* C9.  No aliasing: when every referenced label is a number and some      *)
(* label is one of the target numbers 1..N, the number of each label       *)
(* occurs in the output as often as the label occurred in the input.       *)
(* The code does not satisfy this.                                         *)
(***************************************************************************)
IsNumber(label) == \A k \in 1..Len(label) : IsDigit(label[k])

OverlappingNumbers(text) ==
    /\ HasReference(text)
    /\ \A label \in ReferencedLabels(text) : IsNumber(label)
    /\ ReferencedLabels(text) \cap NumberTexts(Cardinality(ReferencedLabels(text))) # { }

C9_NoAliasing ==
    (Ran /\ OverlappingNumbers(input)) =>
        \A label \in ReferencedLabels(input) :
            Occurrences(result.content, toString(RankOf(input, label)))
                = Occurrences(input, label)

(***************************************************************************)
(* C10.  No collision: labels that differ in the input differ in the       *)
(* output, so the references and definition lines of the output carry at   *)
(* least as many distinct labels as those of the input, orphan definitions *)
(* included.                                                               *)
(* The code does not satisfy this.                                         *)
(***************************************************************************)
DefinitionLabels(text) ==
    { defMatch(split(text)[i]).originalLabel :
        i \in { k \in 1..Len(split(text)) : OpensDefinition(split(text)[k]) } }

LabelsOf(text) == ReferencedLabels(text) \cup DefinitionLabels(text)

C10_NoCollision ==
    Ran => Cardinality(LabelsOf(result.content)) >= Cardinality(LabelsOf(input))

(***************************************************************************)
(* C11.  Line endings: when the input holds a reference, every "\n" of the *)
(* output follows a "\r" if the input contains "\r\n", and none does       *)
(* otherwise.                                                              *)
(* The code does not satisfy this.                                         *)
(***************************************************************************)
C11_OneLineEnding ==
    (Ran /\ HasReference(input)) =>
        \A i \in 1..Len(result.content) :
            result.content[i] = LF =>
                (At(result.content, i - 1) = CR <=> includesCRLF(input))

(***************************************************************************)
(* C12.  Spacing: when the input ends with the definitions of referenced   *)
(* labels and two or more blank lines stand between the last non-blank     *)
(* body line and the first definition, as many blank lines stand before    *)
(* the first definition of the output.                                     *)
(* The code does not satisfy this.                                         *)
(***************************************************************************)
\* The index of the first definition line, 0 when there is none.
FirstDefinition(lines) ==
    IF \E i \in 1..Len(lines) : OpensDefinition(lines[i])
    THEN CHOOSE i \in 1..Len(lines) :
            /\ OpensDefinition(lines[i])
            /\ \A k \in 1..(i - 1) : ~OpensDefinition(lines[k])
    ELSE 0

\* How many blank lines stand right before line i.
RECURSIVE BlankLinesBefore(_, _)
BlankLinesBefore(lines, i) ==
    IF i > 1 /\ IsBlank(lines[i - 1]) THEN 1 + BlankLinesBefore(lines, i - 1)
    ELSE 0

SpacedBlock(text) ==
    LET lines == split(text)
        f == FirstDefinition(lines)
        g == BlankLinesBefore(lines, f)
    IN  /\ f > 0
        /\ \A k \in f..Len(lines) :
              /\ OpensDefinition(lines[k])
              /\ defMatch(lines[k]).originalLabel \in ReferencedLabels(text)
        /\ g >= 2
        /\ f - g >= 2

C12_BlankLinesPreserved ==
    (Ran /\ SpacedBlock(input)) =>
        LET lines == split(input)
            out == split(result.content)
        IN  /\ FirstDefinition(out) > 0
            /\ BlankLinesBefore(out, FirstDefinition(out))
                   = BlankLinesBefore(lines, FirstDefinition(lines))

(***************************************************************************)
(* C13.  Definition text: for every definition line of a referenced label, *)
(* the output holds the same line with the label replaced by its number:   *)
(* the same indentation and the same characters after "]:", white space    *)
(* included.                                                               *)
(* The code does not satisfy this.                                         *)
(***************************************************************************)
\* The line with the label of its definition opener replaced.
Relabelled(line, number) ==
    LET a == skipWhiteSpace(line, 1)
        b == skipToBracket(line, a + 2)
    IN  SubSeq(line, 1, a - 1) \o << "[", "^" >> \o number
        \o SubSeq(line, b, Len(line))

C13_DefinitionTextVerbatim ==
    Ran => \A i \in 1..Len(split(input)) :
              LET line == split(input)[i]
              IN  (/\ OpensDefinition(line)
                   /\ defMatch(line).originalLabel \in ReferencedLabels(input))
                  => \E j \in 1..Len(split(result.content)) :
                         split(result.content)[j]
                             = Relabelled(line,
                                   toString(RankOf(input, defMatch(line).originalLabel)))

(***************************************************************************)
(* C14.  Defensive rule: for an argument that is empty, null, undefined or *)
(* not a string, the call returns content "", changed = false and          *)
(* footnoteCount = 0, and the content returned is a string.                *)
(* The code does not satisfy this.                                         *)
(***************************************************************************)
C14_EmptyResult ==
    (Ran /\ (input.typeof # "string" \/ input.value = << >>)) =>
        /\ result.content = String(<< >>)
        /\ ~result.changed
        /\ result.footnoteCount = 0

(***************************************************************************)
(* C15.  footnoteCount is the number of distinct labels with a reference   *)
(* occurrence in the input: a repeated reference counts once, a label that *)
(* only a definition line carries does not count.                          *)
(***************************************************************************)
C15_CountsDistinctLabels ==
    Ran => result.footnoteCount = Cardinality(ReferencedLabels(input))

\* A run on a document with a repeated reference and an orphan definition.
C15_Witness ==
    /\ Ran
    /\ \E label \in ReferencedLabels(input) : Occurrences(input, label) >= 2
    /\ \E i \in 1..Len(split(input)) :
          /\ OpensDefinition(split(input)[i])
          /\ defMatch(split(input)[i]).originalLabel \notin ReferencedLabels(input)
    /\ result.footnoteCount = Cardinality(ReferencedLabels(input))

(***************************************************************************)
(* C16.  Determinism: a call repeated with the same argument returns the   *)
(* same content, changed and footnoteCount as the call before it, whatever *)
(* placeholder tokens the two calls draw.                                  *)
(* The code does not satisfy this.                                         *)
(***************************************************************************)
C16_Deterministic ==
    [][(runs >= 1 /\ content' = input) => result' = result]_vars


(***************************************************************************)
(* C17.  Starting from a document whose references are labelled 1..N in    *)
(* order of first appearance and whose N definitions form a sorted block   *)
(* at the end, every confirmed insertion leaves a document of this shape   *)
(* with one more footnote, and every earlier definition text is still      *)
(* attached to the reference it belonged to.  The code does not satisfy    *)
(* this.                                                                   *)
(***************************************************************************)
\* The texts of the definition block of a document, first to last.
DefinitionTexts(text) ==
    LET lines == split(text)
        f == FirstDefinition(lines)
        n == Cardinality({ i \in 1..Len(lines) : OpensDefinition(lines[i]) })
    IN  [k \in 1..n |-> defMatch(lines[f + k - 1]).defContent]

Shaped(text) ==
    LET lines == split(text)
        labels == orderedLabels(text)
        n == Len(labels)
        f == FirstDefinition(lines)
    IN  /\ \A k \in 1..n : labels[k] = toString(k)
        /\ Cardinality({ i \in 1..Len(lines) : OpensDefinition(lines[i]) }) = n
        /\ n > 0 =>
              /\ f + n - 1 <= Len(lines)
              /\ \A k \in 1..n :
                    /\ OpensDefinition(lines[f + k - 1])
                    /\ defMatch(lines[f + k - 1]).originalLabel = toString(k)
              /\ \A i \in (f + n)..Len(lines) : IsBlank(lines[i])

C17_InsertionKeepsShape ==
    [][(runs' = runs + 1 /\ Shaped(content)) =>
          /\ Shaped(content')
          /\ Len(orderedLabels(content')) = Len(orderedLabels(content)) + 1
          /\ \E j \in 1..Len(DefinitionTexts(content')) :
                RemoveAt(DefinitionTexts(content'), j) = DefinitionTexts(content)]_vars

(***************************************************************************)
(* C18.  Triggering the insert-footnote command does not modify the        *)
(* document: the document changes only in the step in which a modal is     *)
(* confirmed with a text that is not blank, which writes the definition    *)
(* of that text; a trigger, a blank submission and a cancellation leave    *)
(* the document as it is.                                                  *)
(***************************************************************************)
Includes(text, part) ==
    \E i \in 1..(Len(text) - Len(part) + 1) : SubSeq(text, i, i + Len(part) - 1) = part

C18_OnlyConfirmationWrites ==
    [][content' # content =>
          /\ runs' = runs + 1
          /\ \E k \in 1..Len(modals) :
                /\ modals' = RemoveAt(modals, k)
                /\ Includes(input', ref(toString(modals[k].nextFootnoteNumber))
                                      \o << ":", " " >>
                                      \o FootnoteTexts[(runs % Len(FootnoteTexts)) + 1])]_vars

\* The command was triggered and its modal cancelled (the backup it wrote
\* is there), it was triggered again and the modal is open: the document is
\* still the one backed up.
C18_Witness ==
    /\ runs = 0
    /\ Len(modals) = 1
    /\ content \in backups
    /\ ~modals[1].backup

(***************************************************************************)
(* C19.  A backup is written before changes are made: every step that      *)
(* changes the document confirms a modal whose command invocation wrote    *)
(* its backup file, so the document is never changed when the backup       *)
(* could not be written.  The code does not satisfy this.                  *)
(***************************************************************************)
C19_BackupBeforeChange ==
    [][content' # content =>
          \E k \in 1..Len(modals) :
             /\ modals' = RemoveAt(modals, k)
             /\ modals[k].backup]_vars

(***************************************************************************)
(* C20.  getNextFootnoteNumber returns 1 for a document with no numeric    *)
(* label, and otherwise the largest numeric label of its references and    *)
(* definitions plus 1; labels that are not numbers are ignored, and the    *)
(* number returned is no label of the document.  The code does not         *)
(* satisfy this.                                                           *)
(***************************************************************************)
\* The labels between "[^" and the next "]" of a text.
UsedLabels(text) ==
    { SubSeq(text, i + 2, j - 1) :
        << i, j >> \in { p \in (1..Len(text)) \X (1..Len(text)) :
                           /\ p[1] + 2 < p[2]
                           /\ text[p[1]] = "[" /\ text[p[1] + 1] = "^"
                           /\ text[p[2]] = "]"
                           /\ \A k \in (p[1] + 2)..(p[2] - 1) : text[k] # "]" } }

IsNumeric(label) == Len(label) >= 1 /\ \A k \in 1..Len(label) : IsDigit(label[k])

NumericLabels(text) == { parseDigits(l, 1, 0) : l \in { u \in UsedLabels(text) : IsNumeric(u) } }

LargestPlusOne(numbers) ==
    IF numbers = { } THEN 1 ELSE (CHOOSE n \in numbers : \A m \in numbers : m <= n) + 1

C20_NextNumber ==
    \A k \in 1..Len(modals) :
        /\ modals[k].nextFootnoteNumber = LargestPlusOne(NumericLabels(content))
        /\ toString(modals[k].nextFootnoteNumber) \notin UsedLabels(content)

(***************************************************************************)
(* C21.  cleanupOldBackups removes only files created more than 30 days    *)
(* before the current time; nothing is listed or removed when the backups  *)
(* folder does not exist; and when the folder was listed, every entry is   *)
(* examined, whatever failed at the entries before it.                     *)
(***************************************************************************)
C21_OnlyOldBackupsRemoved ==
    /\ \A i \in cleanup.removed :
          /\ backupFolder.files[i].type = "file"
          /\ now - backupFolder.files[i].ctime > ThirtyDays
    /\ ~backupFolder.exists => (~cleanup.listed /\ cleanup.removed = { })
    /\ (cleanup.pc = "done" /\ backupFolder.exists /\ ~backupFolder.listFails) =>
          cleanup.examined = 1..Len(backupFolder.files)

\* The run is over: stat threw at the first entry, the second, 31 days
\* old, was removed.
C21_Witness ==
    /\ cleanup.pc = "done"
    /\ Len(backupFolder.files) = 2
    /\ backupFolder.files[1].fault = "stat"
    /\ cleanup.removed = { 2 }
    /\ cleanup.examined = { 1, 2 }

(***************************************************************************)
(* C22.  The placeholders of two different labels are different, so no two *)
(* labels end up with the same final number through a shared placeholder:  *)
(* the references of the result carry as many distinct numbers as the      *)
(* references of the argument carry distinct labels.  The code does not    *)
(* satisfy this.                                                           *)
(***************************************************************************)
C22_DistinctPlaceholders ==
    (Ran /\ input.typeof = "string") =>
        Cardinality(ReferencedLabels(result.content.value))
            = Cardinality(ReferencedLabels(input.value))

(***************************************************************************)
(* C23.  An orphan definition keeps its place among the body lines: the    *)
(* lines of the output before the appended definitions are, in the same    *)
(* order, the lines of the input that are not definitions of a referenced  *)
(* label (labels and the blank lines at the end of the body apart), also   *)
(* when an orphan definition stood between two referenced definitions.     *)
(***************************************************************************)
IsLiveDefinition(text, line) ==
    OpensDefinition(line) /\ defMatch(line).originalLabel \in ReferencedLabels(text)

\* The lines of a text that are not definitions of a referenced label.
RetainedLines(text) ==
    LET lines == split(text)
    IN  SelectSeq(lines, LAMBDA l : ~IsLiveDefinition(text, l))

LiveDefinitionCount(text) ==
    Len(split(text)) - Len(RetainedLines(text))

RECURSIVE DropTrailingBlank(_)
DropTrailingBlank(lines) ==
    IF lines # << >> /\ IsBlank(lines[Len(lines)])
    THEN DropTrailingBlank(SubSeq(lines, 1, Len(lines) - 1))
    ELSE lines

\* A line with every label between "[^" and the next "]" taken out.
RECURSIVE Skeleton(_, _)
Skeleton(s, i) ==
    IF i > Len(s) THEN << >>
    ELSE IF /\ s[i] = "[" /\ At(s, i + 1) = "^"
            /\ \E j \in (i + 3)..Len(s) : s[j] = "]"
    THEN LET j == CHOOSE j \in (i + 3)..Len(s) :
                     s[j] = "]" /\ \A k \in (i + 3)..(j - 1) : s[k] # "]"
         IN  << "[", "^", "]" >> \o Skeleton(s, j + 1)
    ELSE << s[i] >> \o Skeleton(s, i + 1)

Skeletons(lines) == [k \in 1..Len(lines) |-> Skeleton(lines[k], 1)]

TrailingBlankLines(text) ==
    Len(RetainedLines(text)) - Len(DropTrailingBlank(RetainedLines(text)))

HasBody(text) == DropTrailingBlank(RetainedLines(text)) # << >>

C24_BlankLineBeforeDefinitions ==
    (Ran /\ LiveDefinitionCount(input) > 0 /\ HasBody(input)) =>
        LET out == split(result.content)
            first == Len(out) - LiveDefinitionCount(input) + 1
            blank == BlankLinesBefore(out, first)
        IN  /\ blank >= 1
            /\ TrailingBlankLines(input) <= 1 => blank = 1

\* A body without a blank line at its end got one; a second run, on a body
\* that ends with this blank line, kept exactly one.
C24_Witness ==
    /\ runs = 2
    /\ LiveDefinitionCount(input) > 0 /\ HasBody(input)
    /\ TrailingBlankLines(input) = 1
    /\ BlankLinesBefore(split(result.content),
                        Len(split(result.content)) - LiveDefinitionCount(input) + 1) = 1

(***************************************************************************)
(* C25.  Every line that is not a renumbered definition is retained, in    *)
(* its place, and differs from its original only in the labels of the      *)
(* reference occurrences the scan found, which are replaced by their       *)
(* numbers; also when the text of one label holds "[^" and another label.  *)
(* The code does not satisfy this.                                         *)
(***************************************************************************)
\* A line with the label of every reference occurrence replaced by the
\* rank of the label in the text.
RECURSIVE RenumberedLine(_, _, _)
RenumberedLine(line, i, text) ==
    IF i > Len(line) THEN << >>
    ELSE LET j == footnoteRefRegexAt(line, i)
         IN  IF j = 0 THEN << line[i] >> \o RenumberedLine(line, i + 1, text)
             ELSE ref(toString(RankOf(text, SubSeq(line, i + 2, j - 1))))
                  \o RenumberedLine(line, j + 1, text)

C25_BodyLinesRetained ==
    Ran =>
        LET out == split(result.content)
            body == DropTrailingBlank(SubSeq(out, 1, Len(out) - LiveDefinitionCount(input)))
            retained == DropTrailingBlank(RetainedLines(input))
        IN  body = [k \in 1..Len(retained) |-> RenumberedLine(retained[k], 1, input)]

(***************************************************************************)
(* C26.  After renumbering a document with at least one reference, the     *)
(* labels of the reference occurrences of the output are exactly the       *)
(* numbers 1..footnoteCount: every counted reference has been renumbered,  *)
(* the references inside the text of a definition line included.  The code *)
(* does not satisfy this.                                                  *)
(***************************************************************************)
C26_EveryReferenceRenumbered ==
    (Ran /\ HasReference(input)) =>
        ReferencedLabels(result.content)
            = { toString(k) : k \in 1..result.footnoteCount }

(***************************************************************************)
(* C27.  Renumbering neither loses nor duplicates a definition: the output *)
(* has as many definition lines as the input, and the definition lines of  *)
(* one referenced label are all in the sorted block, under the number of   *)
(* the label, in their original order.  The code does not satisfy this.    *)
(***************************************************************************)
DefinitionLines(lines) == SelectSeq(lines, OpensDefinition)

\* The texts of the definition lines with a label, first to last.
TextsOf(lines, label) ==
    LET defs == SelectSeq(lines,
                          LAMBDA l : OpensDefinition(l)
                                     /\ defMatch(l).originalLabel = label)
    IN  [k \in 1..Len(defs) |-> defMatch(defs[k]).defContent]

C27_DefinitionsKept ==
    Ran =>
        LET out == split(result.content)
            count == LiveDefinitionCount(input)
            block == SubSeq(out, Len(out) - count + 1, Len(out))
        IN  /\ Len(DefinitionLines(out)) = Len(DefinitionLines(split(input)))
            /\ \A label \in ReferencedLabels(input) :
                  TextsOf(block, toString(RankOf(input, label)))
                      = TextsOf(split(input), label)

(***************************************************************************)
(* C28.  addFootnoteDefinition never loses an existing footnote: after it  *)
(* has replaced the trailing footnote section, every definition line of    *)
(* that section is still there with its label and text, and so is the new  *)
(* definition; with "\n" and with "\r\n" line endings, with numeric and    *)
(* other labels.  The code does not satisfy this.                          *)
(***************************************************************************)
\* A line without the "\r" of a "\r\n" ending.
WithoutCR(line) ==
    IF line # << >> /\ line[Len(line)] = CR THEN SubSeq(line, 1, Len(line) - 1)
    ELSE line

PlainLines(text) ==
    LET lines == splitNewline(text, 1, 1)
    IN  [k \in 1..Len(lines) |-> WithoutCR(lines[k])]

\* The definition lines of the trailing section: the lines after the last
\* line that is neither blank nor a definition.
SectionDefinitions(text) ==
    LET lines == PlainLines(text)
        inSection(k) == \A m \in k..Len(lines) :
                           IsBlank(lines[m]) \/ OpensDefinition(lines[m])
    IN  { [label |-> defMatch(lines[k]).originalLabel,
           text |-> defMatch(lines[k]).defContent] :
            k \in { m \in 1..Len(lines) : inSection(m) /\ OpensDefinition(lines[m]) } }

AllDefinitions(text) ==
    LET lines == PlainLines(text)
    IN  { [label |-> defMatch(lines[k]).originalLabel,
           text |-> defMatch(lines[k]).defContent] :
            k \in { m \in 1..Len(lines) : OpensDefinition(lines[m]) } }

C28_NoFootnoteLost ==
    [][runs' = runs + 1 =>
          /\ SectionDefinitions(content) \subseteq AllDefinitions(input')
          /\ [label |-> toString(getNextFootnoteNumber(content)),
              text |-> FootnoteTexts[(runs % Len(FootnoteTexts)) + 1]]
                \in AllDefinitions(input')]_vars

(***************************************************************************)
(* C29.  After a confirmed insertion the cursor stands right after the     *)
(* inserted reference, on the line where the reference now is, whatever    *)
(* number the reference received and wherever definition lines stood       *)
(* before the insertion.  The formula covers the insertions into a line    *)
(* that is not a referenced definition, at a column where the scan finds   *)
(* the inserted reference.  The code does not satisfy this.                *)
(***************************************************************************)
\* The length of line[1..stop] once its references carry their numbers.
RECURSIVE RenumberedLength(_, _, _, _)
RenumberedLength(line, i, text, stop) ==
    IF i > stop \/ i > Len(line) THEN 0
    ELSE LET j == footnoteRefRegexAt(line, i)
         IN  IF j = 0 THEN 1 + RenumberedLength(line, i + 1, text, stop)
             ELSE Len(ref(toString(RankOf(text, SubSeq(line, i + 2, j - 1)))))
                  + RenumberedLength(line, j + 1, text, stop)

\* The columns of line at which the scan finds a reference.
RECURSIVE MatchStarts(_, _)
MatchStarts(line, i) ==
    IF i > Len(line) THEN {}
    ELSE LET j == footnoteRefRegexAt(line, i)
         IN  IF j = 0 THEN MatchStarts(line, i + 1)
             ELSE {i} \cup MatchStarts(line, j + 1)

\* The position right after the reference inserted at `at`, in the
\* renumbered text.
AfterInsertedReference(text, at, footnoteRef) ==
    LET lines == split(text)
    IN  [line |-> Cardinality({ m \in 1..(at.line + 1) :
                                  ~IsLiveDefinition(text, lines[m]) }) - 1,
         ch |-> RenumberedLength(lines[at.line + 1], 1, text,
                                 at.ch + Len(footnoteRef))]

C29_CursorAfterReference ==
    [][runs' = runs + 1 =>
          \E k \in 1..Len(modals) :
             /\ modals' = RemoveAt(modals, k)
             /\ LET at == modals[k].cursor
                    lines == split(input')
                IN  (/\ at.line < Len(lines)
                     /\ ~IsLiveDefinition(input', lines[at.line + 1])
                     /\ at.ch + 1 \in MatchStarts(lines[at.line + 1], 1)) =>
                        cursor' = AfterInsertedReference(
                                      input', at,
                                      ref(toString(modals[k].nextFootnoteNumber)))]_vars

(***************************************************************************)
(* C30.  When the command is triggered again before the first modal is     *)
(* confirmed, each confirmed insertion still produces its own footnote:    *)
(* a confirmation whose captured number has been taken since the trigger   *)
(* leaves no two definitions sharing a label.  The code does not satisfy   *)
(* this: a confirmation uses the number captured at trigger time.          *)
(***************************************************************************)
DistinctDefinitions(text) ==
    \A label \in UsedLabels(text) : Len(TextsOf(split(text), label)) <= 1

C30_OwnFootnote ==
    [][runs' = runs + 1 =>
          \E k \in 1..Len(modals) :
             /\ modals' = RemoveAt(modals, k)
             /\ (/\ DistinctDefinitions(content)
                 /\ modals[k].nextFootnoteNumber # getNextFootnoteNumber(content)
                 /\ toString(modals[k].nextFootnoteNumber) \in UsedLabels(content)) =>
                    DistinctDefinitions(content')]_vars

====
